---- MODULE Spec2Model ----
(***************************************************************************)
(* The CRM query backend: the HTTP handlers of crm-backend/src/main.py on  *)
(* top of the query delegate CRMQueryEngine of crm-backend/src/engine.py.  *)
(*                                                                         *)
(* Texts are sequences of one-character strings.  The external libraries   *)
(* (SQLAlchemy, LlamaIndex, the OpenAI client) are the environment: each   *)
(* call into them either returns or raises an exception the environment    *)
(* chooses.                                                                *)
(***************************************************************************)
EXTENDS Integers, Sequences, FiniteSets, TLC

\* ------------------------------------------------------------------------
\* Bounds of the model
\* ------------------------------------------------------------------------

\* Longest message list of a chat-completions request.
MaxMsgs == 2

\* Most chunks a response generator yields.
MaxChunks == 2

\* Most requests the event loop has in hand at once.
NumTasks == 2

\* ------------------------------------------------------------------------
\* Text primitives used by generate_segment (Python str methods)
\* ------------------------------------------------------------------------

\* The double quote.
Q == "\""

\* The backtick character (U+0060), which a TLA+ string cannot hold.
BT == "BT"

\* The whitespace str.strip() and json.loads skip, within the alphabet.
Whitespace == {" ", "\n"}

Digits == {"1", "2"}

\* The fence delimiter, three backticks, of result_text.split.
Fence == <<BT, BT, BT>>

\* The tag of result_text.startswith("json").
JsonTag == <<"j", "s", "o", "n">>

\* s[i:] with a 0-based Python index i.
SliceFrom(s, i) == SubSeq(s, i + 1, Len(s))

\* str.startswith
StartsWith(s, p) == Len(s) >= Len(p) /\ SubSeq(s, 1, Len(p)) = p

RECURSIVE LStrip(_)
LStrip(s) ==
    IF s # <<>> /\ Head(s) \in Whitespace THEN LStrip(Tail(s)) ELSE s

RECURSIVE RStrip(_)
RStrip(s) ==
    IF s # <<>> /\ s[Len(s)] \in Whitespace
    THEN RStrip(SubSeq(s, 1, Len(s) - 1))
    ELSE s

\* str.strip()
Strip(s) == RStrip(LStrip(s))

\* str.find: the 1-based index of the first occurrence of d in s, 0 if none.
RECURSIVE FindFrom(_, _, _)
FindFrom(s, d, i) ==
    IF i + Len(d) - 1 > Len(s) THEN 0
    ELSE IF SubSeq(s, i, i + Len(d) - 1) = d THEN i
    ELSE FindFrom(s, d, i + 1)

\* str.split(d): the pieces between the non-overlapping occurrences of d,
\* scanning left to right.
RECURSIVE Split(_, _)
Split(s, d) ==
    LET i == FindFrom(s, d, 1) IN
    IF i = 0 THEN <<s>>
    ELSE <<SubSeq(s, 1, i - 1)>> \o Split(SubSeq(s, i + Len(d), Len(s)), d)

\* ------------------------------------------------------------------------
\* json.loads, on the JSON subset of objects, arrays, strings without
\* escapes and unsigned integers.  A value is [t, s, items]: t its type,
\* s the characters of a string or number, items the elements of an array
\* or the <<key, value>> members of an object (a repeated key keeps its
\* last value, as a Python dict does).
\* ------------------------------------------------------------------------

JStr(s) == [t |-> "str", s |-> s, items |-> <<>>]
JNum(s) == [t |-> "num", s |-> s, items |-> <<>>]
JArr(items) == [t |-> "arr", s |-> <<>>, items |-> items]
JObj(items) == [t |-> "obj", s |-> <<>>, items |-> items]
JNone == [t |-> "none", s |-> <<>>, items |-> <<>>]

ParseFail == [ok |-> FALSE, v |-> JNone, i |-> 0]
ParseOk(v, i) == [ok |-> TRUE, v |-> v, i |-> i]

RECURSIVE SkipWs(_, _)
SkipWs(s, i) ==
    IF i <= Len(s) /\ s[i] \in Whitespace THEN SkipWs(s, i + 1) ELSE i

RECURSIVE DigitsEnd(_, _)
DigitsEnd(s, i) ==
    IF i <= Len(s) /\ s[i] \in Digits THEN DigitsEnd(s, i + 1) ELSE i

\* dict[key] = value
DictSet(items, k, v) ==
    IF \E n \in 1..Len(items) : items[n][1] = k
    THEN [n \in 1..Len(items) |->
            IF items[n][1] = k THEN <<k, v>> ELSE items[n]]
    ELSE Append(items, <<k, v>>)

HasKey(obj, k) == \E n \in 1..Len(obj.items) : obj.items[n][1] = k

\* dict[k] of a dict that has the key k
GetItem(obj, k) ==
    LET n == CHOOSE n \in 1..Len(obj.items) : obj.items[n][1] = k
    IN obj.items[n][2]

\* A string starting at the quote s[i].
ParseString(s, i) ==
    LET j == FindFrom(s, <<Q>>, i + 1) IN
    IF j = 0 THEN ParseFail ELSE ParseOk(JStr(SubSeq(s, i + 1, j - 1)), j + 1)

RECURSIVE ParseValue(_, _)
RECURSIVE ParseMembers(_, _, _)
RECURSIVE ParseElements(_, _, _)

\* The members of an object from the key expected at s[i] on.
ParseMembers(s, i, acc) ==
    IF i > Len(s) \/ s[i] # Q THEN ParseFail
    ELSE
      LET k == ParseString(s, i) IN
      IF ~k.ok THEN ParseFail
      ELSE
        LET c == SkipWs(s, k.i) IN
        IF c > Len(s) \/ s[c] # ":" THEN ParseFail
        ELSE
          LET v == ParseValue(s, SkipWs(s, c + 1)) IN
          IF ~v.ok THEN ParseFail
          ELSE
            LET e == SkipWs(s, v.i)
                acc2 == DictSet(acc, k.v.s, v.v)
            IN
            IF e > Len(s) THEN ParseFail
            ELSE IF s[e] = "}" THEN ParseOk(JObj(acc2), e + 1)
            ELSE IF s[e] = "," THEN ParseMembers(s, SkipWs(s, e + 1), acc2)
            ELSE ParseFail

\* The elements of an array from the value expected at s[i] on.
ParseElements(s, i, acc) ==
    LET v == ParseValue(s, i) IN
    IF ~v.ok THEN ParseFail
    ELSE
      LET e == SkipWs(s, v.i) IN
      IF e > Len(s) THEN ParseFail
      ELSE IF s[e] = "]" THEN ParseOk(JArr(Append(acc, v.v)), e + 1)
      ELSE IF s[e] = "," THEN ParseElements(s, SkipWs(s, e + 1), Append(acc, v.v))
      ELSE ParseFail

ParseValue(s, i) ==
    IF i > Len(s) THEN ParseFail
    ELSE IF s[i] = "{" THEN
      LET j == SkipWs(s, i + 1) IN
      IF j <= Len(s) /\ s[j] = "}" THEN ParseOk(JObj(<<>>), j + 1)
      ELSE ParseMembers(s, j, <<>>)
    ELSE IF s[i] = "[" THEN
      LET j == SkipWs(s, i + 1) IN
      IF j <= Len(s) /\ s[j] = "]" THEN ParseOk(JArr(<<>>), j + 1)
      ELSE ParseElements(s, j, <<>>)
    ELSE IF s[i] = Q THEN ParseString(s, i)
    ELSE IF s[i] \in Digits THEN
      LET j == DigitsEnd(s, i) IN ParseOk(JNum(SubSeq(s, i, j - 1)), j)
    ELSE ParseFail

\* json.loads(s): ok is FALSE where it raises json.JSONDecodeError.
JsonLoads(s) ==
    LET r == ParseValue(s, SkipWs(s, 1)) IN
    IF r.ok /\ SkipWs(s, r.i) = Len(s) + 1
    THEN [ok |-> TRUE, v |-> r.v]
    ELSE [ok |-> FALSE, v |-> JNone]

\* ------------------------------------------------------------------------
\* Exceptions.  An exception is [cls, msg]: its class and the text str(e)
\* gives, a sequence of strings.
\* ------------------------------------------------------------------------

NoExc == [cls |-> "None", msg |-> <<>>]

\* The classes a handler's `except ValueError` catches: ValueError and its
\* subclasses json.JSONDecodeError and pydantic's ValidationError.
ValueErrorClasses == {"ValueError", "JSONDecodeError", "ValidationError"}

IsValueError(e) == e.cls \in ValueErrorClasses

\* What a call into a library raises when it fails.
EnvExceptions ==
    { [cls |-> "ValueError", msg |-> <<"invalid value">>],
      [cls |-> "OperationalError", msg |-> <<"connection refused">>] }

\* str(e)
Str(e) == e.msg

\* A logger.error record: the module that logs, the message and the error.
LogError(by, what, e) == [by |-> by, what |-> what, exc |-> e]

\* ------------------------------------------------------------------------
\* The environment of one request: env.fail is the library call that fails
\* if the request reaches it ("none": no call fails), env.exc what it raises.
\* The other fields are what the calls that succeed return.
\* ------------------------------------------------------------------------

NoFail == "none"

\* ------------------------------------------------------------------------
\* CRMQueryEngine: the delegate.  self is the record of its four lazily
\* initialised fields, each "None" until set.  An _init_* operator gives
\* [self, exc]: the fields afterwards, and the exception it raised (NoExc
\* when it returned).
\* ------------------------------------------------------------------------

NewCRMQueryEngine ==
    [_engine |-> "None", _sql_database |-> "None",
     _query_engine |-> "None", _llm |-> "None"]

InitDone(self) == [self |-> self, exc |-> NoExc]
InitRaised(self, e) == [self |-> self, exc |-> e]

\* _init_engine without its `is None` test: create_engine on every call.
_init_engine_always(self, env) ==
    IF env.fail = "create_engine" THEN InitRaised(self, env.exc)
    ELSE InitDone([self EXCEPT !._engine = "Engine"])

_init_engine(self, env) ==
    IF self._engine # "None" THEN InitDone(self)
    ELSE IF env.fail = "create_engine" THEN InitRaised(self, env.exc)
    ELSE InitDone([self EXCEPT !._engine = "Engine"])

_init_llm(self, env) ==
    IF self._llm # "None" THEN InitDone(self)
    ELSE IF env.fail = "OpenAI" THEN InitRaised(self, env.exc)
    ELSE InitDone([self EXCEPT !._llm = "OpenAI"])

_init_sql_database(self, env) ==
    IF self._sql_database # "None" THEN InitDone(self)
    ELSE
      LET a == _init_engine(self, env) IN
      IF a.exc # NoExc THEN a
      ELSE IF env.fail = "SQLDatabase" THEN InitRaised(a.self, env.exc)
      ELSE InitDone([a.self EXCEPT !._sql_database = "SQLDatabase"])

_init_query_engine(self, env) ==
    IF self._query_engine # "None" THEN InitDone(self)
    ELSE
      LET a == _init_sql_database(self, env) IN
      IF a.exc # NoExc THEN a
      ELSE
        LET b == _init_llm(a.self, env) IN
        IF b.exc # NoExc THEN b
        ELSE IF env.fail = "NLSQLTableQueryEngine"
        THEN InitRaised(b.self, env.exc)
        ELSE InitDone([b.self EXCEPT !._query_engine = "NLSQLTableQueryEngine"])

\* ------------------------------------------------------------------------
\* The result of a delegate operation: the fields afterwards, whether it
\* returned a value or raised, the error records the delegate logged, and
\* cause: the error that made it fail (NoExc when it did not fail).
\* ------------------------------------------------------------------------

NoValue == <<>>

Returned(self, v) ==
    [self |-> self, kind |-> "return", value |-> v, exc |-> NoExc,
     log |-> <<>>, cause |-> NoExc]

Raised(self, e, log, cause) ==
    [self |-> self, kind |-> "raise", value |-> NoValue, exc |-> e,
     log |-> log, cause |-> cause]

\* `response.response if hasattr(response, "response") else str(response)`
ResponseText(response) ==
    IF "response" \in response.attrs THEN response.response ELSE response.str

\* CRMQueryEngine.query
query(self, question, env) ==
    LET i == _init_query_engine(self, env) IN
    IF i.exc # NoExc THEN Raised(i.self, i.exc, <<>>, i.exc)
    ELSE IF env.fail = "query"
    THEN Raised(i.self, env.exc,
                <<LogError("engine", "Query error", env.exc)>>, env.exc)
    ELSE Returned(i.self, ResponseText(env.response))

\* The error of using the local name json before `import json` has bound it.
UnboundLocalJson ==
    [cls |-> "UnboundLocalError",
     msg |-> <<"cannot access local variable 'json'">>]

AttributeErrorGet ==
    [cls |-> "AttributeError", msg |-> <<"object has no attribute 'get'">>]

JSONDecodeError ==
    [cls |-> "JSONDecodeError", msg |-> <<"Expecting value">>]

\* Clean up markdown code blocks if present.
CleanFence(result_text) ==
    IF StartsWith(result_text, Fence)
    THEN LET inner == Split(result_text, Fence)[2]
             untagged == IF StartsWith(inner, JsonTag)
                         THEN SliceFrom(inner, 4) ELSE inner
         IN Strip(untagged)
    ELSE result_text

InvalidFormat(result_text) ==
    [cls |-> "ValueError",
     msg |-> <<"Invalid segment response format: ">> \o result_text]

\* The try block of generate_segment from `result_text = response.text.strip()`
\* on, given the text of the model's response.
ParseSegment(self, text) ==
    LET result_text == CleanFence(Strip(text))
        parsed == JsonLoads(result_text)
    IN
    IF ~parsed.ok
    THEN Raised(self, InvalidFormat(result_text),
                <<LogError("engine", "Failed to parse segment response",
                           JSONDecodeError)>>,
                JSONDecodeError)
    ELSE IF parsed.v.t # "obj"
    THEN Raised(self, AttributeErrorGet,
                <<LogError("engine", "Segment generation error",
                           AttributeErrorGet)>>,
                AttributeErrorGet)
    ELSE Returned(self, parsed.v)

\* CRMQueryEngine.generate_segment.  When self._llm.complete raises, the
\* clause `except json.JSONDecodeError` is evaluated before the function's
\* `import json` has run: it raises UnboundLocalError, and no handler of the
\* try statement runs.
generate_segment(self, description, env) ==
    LET a == _init_llm(self, env) IN
    IF a.exc # NoExc THEN Raised(a.self, a.exc, <<>>, a.exc)
    ELSE
      LET b == _init_engine(a.self, env) IN
      IF b.exc # NoExc THEN Raised(b.self, b.exc, <<>>, b.exc)
      ELSE IF env.fail = "complete"
      THEN Raised(b.self, UnboundLocalJson, <<>>, env.exc)
      ELSE ParseSegment(b.self, env.text)

\* CRMQueryEngine.execute_segment_sql
execute_segment_sql(self, sql, env) ==
    LET i == _init_engine(self, env) IN
    IF i.exc # NoExc THEN Raised(i.self, i.exc, <<>>, i.exc)
    ELSE IF env.fail \in {"connect", "execute"}
    THEN Raised(i.self, env.exc,
                <<LogError("engine", "Segment SQL execution error", env.exc)>>,
                env.exc)
    ELSE Returned(i.self, env.rows)

\* health_check with _init_engine() before its try statement.
health_check_init_outside_try(self, env) ==
    LET i == _init_engine(self, env) IN
    IF i.exc # NoExc THEN Raised(i.self, i.exc, <<>>, i.exc)
    ELSE IF env.fail \in {"connect", "execute"}
    THEN [self |-> i.self, kind |-> "return", value |-> FALSE, exc |-> NoExc,
          log |-> <<LogError("engine", "Health check failed", env.exc)>>,
          cause |-> env.exc]
    ELSE Returned(i.self, TRUE)

\* CRMQueryEngine.health_check
health_check(self, env) ==
    LET i == _init_engine(self, env) IN
    IF i.exc # NoExc
    THEN [self |-> i.self, kind |-> "return", value |-> FALSE, exc |-> NoExc,
          log |-> <<LogError("engine", "Health check failed", i.exc)>>,
          cause |-> i.exc]
    ELSE IF env.fail \in {"connect", "execute"}
    THEN [self |-> i.self, kind |-> "return", value |-> FALSE, exc |-> NoExc,
          log |-> <<LogError("engine", "Health check failed", env.exc)>>,
          cause |-> env.exc]
    ELSE Returned(i.self, TRUE)

\* ------------------------------------------------------------------------
\* Inputs: requests, and what the library calls return
\* ------------------------------------------------------------------------

Roles == {"system", "user", "assistant"}

\* A message content or an answer is a sequence of words.
Contents == { <<"berapa", "total">>, <<"siapa">> }

ChatMessages == [role : Roles, content : Contents]

RECURSIVE SeqsUpTo(_, _)
SeqsUpTo(S, n) ==
    IF n = 0 THEN {<<>>}
    ELSE LET shorter == SeqsUpTo(S, n - 1) IN
         shorter \cup { Append(q, x) : q \in shorter, x \in S }

MessageLists == SeqsUpTo(ChatMessages, MaxMsgs)

Models == {"crm-sql-engine"}

\* f"chatcmpl-{uuid.uuid4().hex[:12]}" and int(time.time())
RequestIds == {"chatcmpl-0a1b2c3d4e5f"}
Times == {1762214400}

Chunks == { <<"Total">>, <<"invoice", "10">> }

ChunkLists == SeqsUpTo(Chunks, MaxChunks)

\* The response object of NLSQLTableQueryEngine.query: the attributes it
\* has, its answer text, what str() gives, and the chunks its response_gen
\* yields (before it fails, when env.fail = "response_gen").
QueryResponses(chunkLists) ==
    [attrs : SUBSET {"response", "response_gen"},
     response : {<<"Totalnya", "10">>},
     str : {<<"str(response)">>},
     chunks : chunkLists]

NoResponse ==
    [attrs |-> {}, response |-> <<>>, str |-> <<>>, chunks |-> <<>>]

NoEnv ==
    [fail |-> NoFail, exc |-> NoExc, response |-> NoResponse,
     text |-> <<>>, fence |-> "none", body |-> <<>>, rows |-> <<>>]

\* An environment in which the call `site` fails with e, or none does.
Failures(sites) ==
    { [fail |-> NoFail, exc |-> NoExc] } \cup
    { [fail |-> f, exc |-> e] : f \in sites, e \in EnvExceptions }

InitQuerySites ==
    {"create_engine", "SQLDatabase", "OpenAI", "NLSQLTableQueryEngine"}

\* ------------------------------------------------------------------------
\* State
\* ------------------------------------------------------------------------

VARIABLES
    _engine_instance, \* the singleton: <<>> for None, else <<its fields>>
    pc,               \* where the streamed response is, "idle" without one
    request,          \* the request being handled, or handled last
    env,              \* what the library calls of this request do
    response,         \* what the handler returned: [status, detail, body]
    calls,            \* the delegate calls of this request, in order
    log,              \* the logger.error records of this request, in order
    outcome,          \* how the delegate operation of this request ended
    stream,           \* the arguments of stream_response
    source,           \* the response generator query_streaming iterates
    yielded,          \* the chunks query_streaming has yielded
    events,           \* the events stream_response has yielded
    tasks,            \* the handling task of each request the loop has
    running,          \* the task that holds the event loop's thread
    constructed       \* how often each lazy resource went from unset to set

\* The state of the one request of the sequential server.
request_vars ==
    <<pc, request, env, response, calls, log, outcome, stream, source,
      yielded, events>>

\* The state of the event loop and its tasks.
loop_vars == <<tasks, running, constructed>>

vars ==
    <<_engine_instance, pc, request, env, response, calls, log, outcome,
      stream, source, yielded, events, tasks, running, constructed>>

None == <<>>

\* get_crm_engine: the singleton after the call.
get_crm_engine(instance) ==
    IF instance = None THEN <<NewCRMQueryEngine>> ELSE instance

NoBody == <<>>
NoResponseYet == [status |-> 0, detail |-> <<>>, body |-> NoBody]
NoOutcome ==
    [op |-> "none", kind |-> "none", value |-> NoValue, exc |-> NoExc,
     cause |-> NoExc]
NoStream == [query |-> <<>>, request_id |-> "", created |-> 0, model |-> ""]
NoSource == [remaining |-> <<>>, fails |-> FALSE]

\* raise HTTPException(status_code, detail)
HTTPException(status_code, detail) ==
    [status |-> status_code, detail |-> detail, body |-> NoBody]

OK(body) == [status |-> 200, detail |-> <<>>, body |-> body]

OutcomeOf(op, r) ==
    [op |-> op, kind |-> r.kind, value |-> r.value, exc |-> r.exc,
     cause |-> r.cause]

Call(op, arg) == [op |-> op, arg |-> arg]

\* The handling tasks of the event loop; NoTask: the loop's thread is free.
Tasks == 1 .. NumTasks
NoTask == 0

\* The lazily initialised fields of the delegate, and the singleton itself.
Resources == {"_engine", "_llm", "_sql_database", "_query_engine"}
Singleton == "_engine_instance"

\* No request in this slot.
IdleTask ==
    [pc |-> "idle", op |-> "none", fail |-> NoFail, source |-> NoSource]

Init ==
    /\ _engine_instance = None
    /\ pc = "idle"
    /\ request = [endpoint |-> "none"]
    /\ env = NoEnv
    /\ response = NoResponseYet
    /\ calls = <<>>
    /\ log = <<>>
    /\ outcome = NoOutcome
    /\ stream = NoStream
    /\ source = NoSource
    /\ yielded = <<>>
    /\ events = <<>>
    /\ tasks = [t \in Tasks |-> IdleTask]
    /\ running = NoTask
    /\ constructed = [r \in Resources \cup {Singleton} |-> 0]

\* No request is being handled: the next one is.
Ready == pc = "idle"

\* The environment names a failing call only if the request makes that call,
\* and a response object only if the query that returns it returns.
FailureReached(e, r) == e.fail # NoFail <=> r.cause \in EnvExceptions

\* The handler has returned or raised, with no stream to produce.
NoStreaming ==
    /\ pc' = "replied"
    /\ stream' = NoStream
    /\ source' = NoSource
    /\ yielded' = <<>>
    /\ events' = <<>>

\* ------------------------------------------------------------------------
\* POST /v1/chat/completions
\* ------------------------------------------------------------------------

IsUser(m) == m.role = "user"

\* The filter with the wrong test: every message that is not a system one.
IsNotSystem(m) == m.role # "system"
NonSystemMessages(messages) == SelectSeq(messages, IsNotSystem)

\* [m for m in request.messages if m.role == "user"]
UserMessages(messages) == SelectSeq(messages, IsUser)

\* The first user message instead of the last.
FirstContent(user_messages) == user_messages[1].content

\* user_messages[-1].content
LastContent(user_messages) == user_messages[Len(user_messages)].content

\* len(text.split()) of a text held as its words
WordCount(text) == Len(text)

ChatCompletionResponse(request_id, created, model, question, response_text) ==
    [id |-> request_id,
     object |-> "chat.completion",
     created |-> created,
     model |-> model,
     choices |-> << [index |-> 0,
                     message |-> [role |-> "assistant",
                                  content |-> response_text],
                     finish_reason |-> "stop"] >>,
     usage |-> [prompt_tokens |-> WordCount(question),
                completion_tokens |-> WordCount(response_text),
                total_tokens |-> WordCount(question) + WordCount(response_text)]]

EventSourceResponse == OK(<<"text/event-stream">>)

\* What the library calls of engine.query do.
QueryEnvs ==
    { [NoEnv EXCEPT !.fail = f.fail, !.exc = f.exc, !.response = r] :
        f \in Failures(InitQuerySites \cup {"query"}),
        r \in QueryResponses({<<>>}) \cup {NoResponse} }

\* The non-streaming branch: await engine.query(query) and its handlers.
ChatQuery(req, question, request_id, created, engine) ==
    \E e \in QueryEnvs :
      LET r == query(engine[1], question, e) IN
      /\ FailureReached(e, r)
      /\ e.response # NoResponse <=> r.kind = "return"
      /\ env' = e
      /\ _engine_instance' = <<r.self>>
      /\ calls' = <<Call("get_crm_engine", <<>>), Call("query", question)>>
      /\ outcome' = OutcomeOf("query", r)
      /\ IF r.kind = "return"
         THEN /\ log' = r.log
              /\ response' = OK(ChatCompletionResponse(
                                  request_id, created, req.model,
                                  question, r.value))
         ELSE /\ log' = Append(r.log, LogError("main", "Query error", r.exc))
              /\ response' = HTTPException(500, Str(r.exc))
      /\ NoStreaming

\* The streaming branch: the handler returns the EventSourceResponse over
\* the generator stream_response(...), whose body has not started.
ChatStream(req, question, request_id, created, engine) ==
    /\ env' = NoEnv
    /\ _engine_instance' = engine
    /\ calls' = <<Call("get_crm_engine", <<>>)>>
    /\ outcome' = NoOutcome
    /\ log' = <<>>
    /\ response' = EventSourceResponse
    /\ pc' = "start"
    /\ stream' = [query |-> question, request_id |-> request_id,
                  created |-> created, model |-> req.model]
    /\ source' = NoSource
    /\ yielded' = <<>>
    /\ events' = <<>>

chat_completions(req) ==
    LET user_messages == UserMessages(req.messages) IN
    IF user_messages = <<>>
    THEN /\ response' = HTTPException(400, <<"No user message provided">>)
         /\ env' = NoEnv
         /\ calls' = <<>>
         /\ log' = <<>>
         /\ outcome' = NoOutcome
         /\ NoStreaming
         /\ UNCHANGED _engine_instance
    ELSE \E request_id \in RequestIds, created \in Times :
           LET question == LastContent(user_messages)
               engine == get_crm_engine(_engine_instance)
           IN IF req.stream
              THEN ChatStream(req, question, request_id, created, engine)
              ELSE ChatQuery(req, question, request_id, created, engine)

ChatCompletions ==
    /\ Ready
    /\ \E messages \in MessageLists, streaming \in BOOLEAN, model \in Models :
         LET req == [endpoint |-> "chat", messages |-> messages,
                     stream |-> streaming, model |-> model]
         IN /\ request' = req
            /\ chat_completions(req)

\* ------------------------------------------------------------------------
\* stream_response over engine.query_streaming.  An event is what one
\* yield of stream_response gives the transport: the JSON text of a chunk
\* object or of an error object, or the literal "[DONE]".
\* ------------------------------------------------------------------------

\* Python's None as a finish_reason.
Null == "None"

JsonChunk(st, delta, finish_reason) ==
    [kind |-> "chunk",
     id |-> st.request_id,
     object |-> "chat.completion.chunk",
     created |-> st.created,
     model |-> st.model,
     choices |-> << [index |-> 0, delta |-> delta,
                     finish_reason |-> finish_reason] >>,
     error |-> <<>>]

\* A delta chunk that carries the finish marker.
DeltaChunkStop(st, chunk) == JsonChunk(st, {<<"content", chunk>>}, "stop")

\* A dict is the set of its <<key, value>> items.
DeltaChunk(st, chunk) == JsonChunk(st, {<<"content", chunk>>}, Null)

\* A final chunk without the finish marker.
FinalChunkNull(st) == JsonChunk(st, {}, Null)

FinalChunk(st) == JsonChunk(st, {}, "stop")

DoneEvent ==
    [kind |-> "[DONE]", id |-> "", object |-> "", created |-> 0,
     model |-> "", choices |-> <<>>, error |-> <<>>]

\* An error event that carries the class of the failure, not its text.
ErrorEventClass(e) ==
    [kind |-> "error", id |-> "", object |-> "", created |-> 0,
     model |-> "", choices |-> <<>>, error |-> <<e.cls>>]

ErrorEvent(e) ==
    [kind |-> "error", id |-> "", object |-> "", created |-> 0,
     model |-> "", choices |-> <<>>, error |-> Str(e)]

\* What the library calls of engine.query_streaming do.
StreamEnvs ==
    { [NoEnv EXCEPT !.fail = f.fail, !.exc = f.exc, !.response = r] :
        f \in Failures(InitQuerySites \cup {"query", "response_gen"}),
        r \in QueryResponses(ChunkLists) \cup {NoResponse} }

\* The response object has chunks only with a response_gen, which alone can
\* fail while it is iterated.
StreamEnvReached(e, i) ==
    IF i.exc # NoExc \/ e.fail = "query"
    THEN e.response = NoResponse
    ELSE /\ e.response # NoResponse
         /\ e.fail \in {NoFail, "response_gen"}
         /\ "response_gen" \notin e.response.attrs
              => e.response.chunks = <<>> /\ e.fail = NoFail

\* The chunks query_streaming is to yield from the response, and whether the
\* iteration raises after them.
SourceOf(e) ==
    IF "response_gen" \in e.response.attrs
    THEN [remaining |-> e.response.chunks, fails |-> e.fail = "response_gen"]
    ELSE [remaining |-> <<ResponseText(e.response)>>, fails |-> FALSE]

\* query_streaming raised e, having logged englog: stream_response logs it
\* and yields the error event.
StreamFailed(e, englog) ==
    /\ log' = log \o englog \o <<LogError("main", "Streaming error", e)>>
    /\ outcome' = [op |-> "query_streaming", kind |-> "raise",
                   value |-> NoValue, exc |-> e, cause |-> e]
    /\ events' = Append(events, ErrorEvent(e))
    /\ pc' = "error"
    /\ UNCHANGED yielded

\* query_streaming runs from where it is suspended to its next yield, its
\* return or its raise, and stream_response to its next yield.
StreamAdvance(src, e) ==
    IF src.remaining # <<>>
    THEN /\ source' = [src EXCEPT !.remaining = Tail(src.remaining)]
         /\ yielded' = Append(yielded, Head(src.remaining))
         /\ events' = Append(events, DeltaChunk(stream, Head(src.remaining)))
         /\ outcome' = [op |-> "query_streaming", kind |-> "running",
                        value |-> NoValue, exc |-> NoExc, cause |-> NoExc]
         /\ pc' = "streaming"
         /\ UNCHANGED log
    ELSE IF src.fails
    THEN /\ source' = src
         /\ StreamFailed(e, <<LogError("engine", "Streaming query error", e)>>)
    ELSE /\ source' = src
         /\ yielded' = yielded
         /\ events' = Append(events, FinalChunk(stream))
         /\ outcome' = [op |-> "query_streaming", kind |-> "return",
                        value |-> NoValue, exc |-> NoExc, cause |-> NoExc]
         /\ pc' = "final"
         /\ UNCHANGED log

\* The transport asks for the first event: stream_response starts, calls
\* engine.query_streaming(query) and iterates it.
StreamStart ==
    /\ pc = "start"
    /\ \E e \in StreamEnvs :
         LET i == _init_query_engine(_engine_instance[1], e) IN
         /\ StreamEnvReached(e, i)
         /\ env' = e
         /\ calls' = Append(calls, Call("query_streaming", stream.query))
         /\ _engine_instance' = <<i.self>>
         /\ IF i.exc # NoExc
            THEN source' = NoSource /\ StreamFailed(i.exc, <<>>)
            ELSE IF e.fail = "query"
            THEN /\ source' = NoSource
                 /\ StreamFailed(e.exc, <<LogError("engine",
                                         "Streaming query error", e.exc)>>)
            ELSE StreamAdvance(SourceOf(e), e.exc)
    /\ UNCHANGED <<request, response, stream>>

\* The transport asks for the next event after a delta chunk.
StreamNext ==
    /\ pc = "streaming"
    /\ StreamAdvance(source, env.exc)
    /\ UNCHANGED <<_engine_instance, request, env, response, calls, stream>>

\* After the final chunk: yield "[DONE]".
StreamDone ==
    /\ pc = "final"
    /\ events' = Append(events, DoneEvent)
    /\ pc' = "done"
    /\ UNCHANGED <<_engine_instance, request, env, response, calls, log,
                   outcome, stream, source, yielded>>

\* After "[DONE]" or the error event: stream_response returns.
StreamClose ==
    /\ pc \in {"done", "error"}
    /\ pc' = "closed"
    /\ UNCHANGED <<_engine_instance, request, env, response, calls, log,
                   outcome, stream, source, yielded, events>>

\* ------------------------------------------------------------------------
\* The texts the language model may answer a segment prompt with
\* ------------------------------------------------------------------------

QStr(chars) == <<Q>> \o chars \o <<Q>>

NameKey == QStr(<<"n", "a", "m", "e">>)
SqlKey == QStr(<<"s", "q", "l">>)

Obj1(k, v) == <<"{">> \o k \o <<":">> \o v \o <<"}">>
Obj2(k1, v1, k2, v2) ==
    <<"{">> \o k1 \o <<":">> \o v1 \o <<",", " ">> \o k2 \o <<":">> \o v2
            \o <<"}">>

VipName == QStr(<<"V", "I", "P">>)
SelectSql == QStr(<<"S", "E", "L", "E", "C", "T", " ", "1">>)

\* A SQL text that quotes an identifier with backticks, and one that holds
\* three backticks in a row.
BacktickSql == QStr(<<"S", " ", BT, "c", BT>>)
FenceSql == QStr(<<"S", " ", BT, BT, BT, "c", BT, BT, BT>>)

ModelBodies ==
    { Obj2(NameKey, VipName, SqlKey, SelectSql),
      Obj2(SqlKey, BacktickSql, NameKey, VipName),
      Obj2(NameKey, VipName, SqlKey, FenceSql),
      Obj2(NameKey, <<"1", "2">>, SqlKey, SelectSql),
      Obj1(NameKey, VipName),
      Obj1(SqlKey, SelectSql),
      <<"{", "}">>,
      <<"[", "1", ",", "2", "]">>,
      <<"1", "2">>,
      VipName,
      <<"S", "o", "r", "r", "y">>,
      <<"{">> \o NameKey \o <<":">> \o VipName,
      <<>> }

FenceKinds == {"none", "json", "plain", "JSON", "padded"}

\* The body inside a fenced code block with the given tag.
Fenced(tag, body) == Fence \o tag \o <<"\n">> \o body \o <<"\n">> \o Fence

Wrap(fence, body) ==
    CASE fence = "none" -> body
      [] fence = "json" -> Fenced(JsonTag, body)
      [] fence = "plain" -> Fenced(<<>>, body)
      [] fence = "JSON" -> Fenced(<<"J", "S", "O", "N">>, body)
      [] fence = "padded" -> <<"\n">> \o Fenced(JsonTag, body) \o <<" ", "\n">>

\* ------------------------------------------------------------------------
\* POST /api/segments/generate
\* ------------------------------------------------------------------------

KeyError(k) == [cls |-> "KeyError", msg |-> <<k>>]

ValidationError ==
    [cls |-> "ValidationError",
     msg |-> <<"validation error for SegmentGenerateResponse">>]

\* SegmentGenerateResponse(name=result["name"], sql=result["sql"]): the
\* model built, or the exception of a missing key or of a field that is no
\* string.
SegmentGenerateResponse(result) ==
    IF ~HasKey(result, <<"n", "a", "m", "e">>)
    THEN [exc |-> KeyError("name"), body |-> NoBody]
    ELSE IF ~HasKey(result, <<"s", "q", "l">>)
    THEN [exc |-> KeyError("sql"), body |-> NoBody]
    ELSE
      LET name == GetItem(result, <<"n", "a", "m", "e">>)
          sql == GetItem(result, <<"s", "q", "l">>)
      IN IF name.t # "str" \/ sql.t # "str"
         THEN [exc |-> ValidationError, body |-> NoBody]
         ELSE [exc |-> NoExc, body |-> [name |-> name.s, sql |-> sql.s]]

\* The except clauses of the endpoint, for the exception e of its try block.
SegmentError(e) ==
    IF IsValueError(e)
    THEN [response |-> HTTPException(400, Str(e)), log |-> <<>>]
    ELSE [response |-> HTTPException(500, Str(e)),
          log |-> <<LogError("main", "Segment generation error", e)>>]

\* generate_segment of main.py, after the delegate's result r.
api_generate_segment(r) ==
    IF r.kind = "return"
    THEN LET built == SegmentGenerateResponse(r.value) IN
         IF built.exc = NoExc
         THEN [response |-> OK(built.body), log |-> <<>>]
         ELSE SegmentError(built.exc)
    ELSE SegmentError(r.exc)

Descriptions == { <<"pelanggan", "VIP">> }

SegmentEnvs ==
    { [NoEnv EXCEPT !.fail = f.fail, !.exc = f.exc,
                    !.text = Wrap(w, b), !.fence = w, !.body = b] :
        f \in Failures({"OpenAI", "create_engine", "complete"}),
        w \in FenceKinds, b \in ModelBodies }

GenerateSegment ==
    /\ Ready
    /\ \E description \in Descriptions, e \in SegmentEnvs :
         LET engine == get_crm_engine(_engine_instance)
             r == generate_segment(engine[1], description, e)
             answer == api_generate_segment(r)
         IN /\ FailureReached(e, r)
            /\ request' = [endpoint |-> "generate", description |-> description]
            /\ env' = e
            /\ _engine_instance' = <<r.self>>
            /\ calls' = <<Call("get_crm_engine", <<>>),
                          Call("generate_segment", description)>>
            /\ outcome' = OutcomeOf("generate_segment", r)
            /\ log' = r.log \o answer.log
            /\ response' = answer.response
    /\ NoStreaming

\* ------------------------------------------------------------------------
\* POST /api/segments/execute
\* ------------------------------------------------------------------------

SqlTexts == { <<"SELECT", "1">> }

RowLists == { <<>>, <<"row1">>, <<"row1", "row2">> }

ExecuteEnvs ==
    { [NoEnv EXCEPT !.fail = f.fail, !.exc = f.exc, !.rows = rows] :
        f \in Failures({"create_engine", "connect", "execute"}),
        rows \in RowLists }

\* execute_segment of main.py, after the delegate's result r.
execute_segment(r) ==
    IF r.kind = "return"
    THEN [response |-> OK([customers |-> r.value, count |-> Len(r.value)]),
          log |-> <<>>]
    ELSE [response |-> HTTPException(500, Str(r.exc)),
          log |-> <<LogError("main", "Segment execution error", r.exc)>>]

ExecuteSegment ==
    /\ Ready
    /\ \E sql \in SqlTexts, e \in ExecuteEnvs :
         LET engine == get_crm_engine(_engine_instance)
             r == execute_segment_sql(engine[1], sql, e)
             answer == execute_segment(r)
         IN /\ FailureReached(e, r)
            /\ request' = [endpoint |-> "execute", sql |-> sql]
            /\ env' = e
            /\ _engine_instance' = <<r.self>>
            /\ calls' = <<Call("get_crm_engine", <<>>),
                          Call("execute_segment_sql", sql)>>
            /\ outcome' = OutcomeOf("execute_segment_sql", r)
            /\ log' = r.log \o answer.log
            /\ response' = answer.response
    /\ NoStreaming

\* ------------------------------------------------------------------------
\* GET /health and GET /v1/models
\* ------------------------------------------------------------------------

HealthEnvs ==
    { [NoEnv EXCEPT !.fail = f.fail, !.exc = f.exc] :
        f \in Failures({"create_engine", "connect", "execute"}) }

\* The body of the /health response for the value of engine.health_check().
HealthBody(db_healthy) ==
    [status |-> IF db_healthy THEN "healthy" ELSE "unhealthy",
     database |-> IF db_healthy THEN "connected" ELSE "disconnected"]

Health ==
    /\ Ready
    /\ \E e \in HealthEnvs :
         LET engine == get_crm_engine(_engine_instance)
             r == health_check(engine[1], e)
         IN /\ FailureReached(e, r)
            /\ request' = [endpoint |-> "health"]
            /\ env' = e
            /\ _engine_instance' = <<r.self>>
            /\ calls' = <<Call("get_crm_engine", <<>>),
                          Call("health_check", <<>>)>>
            /\ outcome' = OutcomeOf("health_check", r)
            /\ log' = r.log
            /\ response' = IF r.kind = "return"
                           THEN OK(HealthBody(r.value))
                           ELSE HTTPException(500, Str(r.exc))
    /\ NoStreaming

ModelsResponse(created) ==
    [object |-> "list",
     data |-> << [id |-> "crm-sql-engine", object |-> "model",
                  created |-> created, owned_by |-> "crm-backend"] >>]

ListModels ==
    /\ Ready
    /\ \E created \in Times :
         /\ request' = [endpoint |-> "models"]
         /\ response' = OK(ModelsResponse(created))
    /\ env' = NoEnv
    /\ calls' = <<>>
    /\ log' = <<>>
    /\ outcome' = NoOutcome
    /\ NoStreaming
    /\ UNCHANGED _engine_instance

\* The framework has sent the response; the request is over.
Finish ==
    /\ pc \in {"replied", "closed"}
    /\ pc' = "idle"
    /\ request' = [endpoint |-> "none"]
    /\ env' = NoEnv
    /\ response' = NoResponseYet
    /\ calls' = <<>>
    /\ log' = <<>>
    /\ outcome' = NoOutcome
    /\ stream' = NoStream
    /\ source' = NoSource
    /\ yielded' = <<>>
    /\ events' = <<>>
    /\ UNCHANGED _engine_instance

\* ------------------------------------------------------------------------
\* The server: one request at a time; a streamed response is produced
\* event by event as the transport asks for the next one.
\* ------------------------------------------------------------------------

Next ==
    \/ ChatCompletions /\ UNCHANGED loop_vars
    \/ StreamStart /\ UNCHANGED loop_vars
    \/ StreamNext /\ UNCHANGED loop_vars
    \/ StreamDone /\ UNCHANGED loop_vars
    \/ StreamClose /\ UNCHANGED loop_vars
    \/ GenerateSegment /\ UNCHANGED loop_vars
    \/ ExecuteSegment /\ UNCHANGED loop_vars
    \/ Health /\ UNCHANGED loop_vars
    \/ ListModels /\ UNCHANGED loop_vars
    \/ Finish /\ UNCHANGED loop_vars

Spec == Init /\ [][Next]_vars

\* ------------------------------------------------------------------------
\* The event loop: uvicorn runs the application on one thread, and every
\* handler is a coroutine (`async def`) of that thread's event loop.  A task
\* keeps the thread until it suspends.  engine.query, generate_segment and
\* execute_segment_sql are coroutines without an `await` of their own, and
\* health_check is a plain method: the library calls they make are ordinary
\* calls, which return to the caller and not to the loop.  A task suspends
\* where the generator stream_response yields an event to the transport.
\* The request bodies are those of the sequential server; only what decides
\* the scheduling and the construction of the resources is kept per task.
\* ------------------------------------------------------------------------

\* Whether a resource, or the singleton, is unset in `instance`.
Unset(instance, r) ==
    IF r = Singleton THEN instance = None
    ELSE instance = None \/ instance[1][r] = "None"

\* The library call that constructs each resource.
Constructor(r) ==
    CASE r = "_engine" -> "create_engine"
      [] r = "_llm" -> "OpenAI"
      [] r = "_sql_database" -> "SQLDatabase"
      [] r = "_query_engine" -> "NLSQLTableQueryEngine"

\* The resources an operation of the delegate initialises before its work.
Uses(op) ==
    CASE op \in {"query", "query_streaming"} -> Resources
      [] op = "generate_segment" -> {"_llm", "_engine"}
      [] op \in {"execute_segment_sql", "health_check"} -> {"_engine"}
      [] OTHER -> {}

\* The count of constructions after a step from `before` to `after`.
Constructed(before, after) ==
    [r \in Resources \cup {Singleton} |->
       IF Unset(before, r) /\ ~Unset(after, r)
       THEN constructed[r] + 1 ELSE constructed[r]]

\* One class of failure is followed: which call fails decides what is
\* constructed, and what it raises does not.
TaskException == [cls |-> "OperationalError", msg |-> <<"connection refused">>]

\* The response generators of the tasks yield one kind of chunk.
TaskChunkLists == SeqsUpTo({<<"Total">>}, MaxChunks)

\* The message lists of the tasks: none, or one message.
TaskMessageLists == SeqsUpTo(ChatMessages, 1)

\* What the library calls of a delegate operation do for a task.
TaskEnvs(op) ==
    CASE op = "query" ->
           { e \in QueryEnvs : e.exc \in {NoExc, TaskException} }
      [] op = "query_streaming" ->
           { [NoEnv EXCEPT !.fail = f.fail, !.exc = f.exc, !.response = r] :
               f \in { g \in Failures(InitQuerySites
                                      \cup {"query", "response_gen"}) :
                         g.exc \in {NoExc, TaskException} },
               r \in QueryResponses(TaskChunkLists) \cup {NoResponse} }
      [] op = "generate_segment" ->
           { e \in SegmentEnvs :
               /\ e.exc \in {NoExc, TaskException}
               /\ e.fence = "none"
               /\ e.body = Obj2(NameKey, VipName, SqlKey, SelectSql) }
      [] op = "execute_segment_sql" ->
           { e \in ExecuteEnvs :
               e.exc \in {NoExc, TaskException} /\ e.rows = <<>> }
      [] op = "health_check" ->
           { e \in HealthEnvs : e.exc \in {NoExc, TaskException} }

\* The delegate operation `op` on self in the environment e.
Operation(op, self, e) ==
    CASE op = "query" -> query(self, <<"siapa">>, e)
      [] op = "generate_segment" -> generate_segment(self, <<"vip">>, e)
      [] op = "execute_segment_sql" ->
           execute_segment_sql(self, <<"SELECT", "1">>, e)
      [] op = "health_check" -> health_check(self, e)

\* The loop's thread is free and slot t has no request: one arrives.
Arrives(t) == running = NoTask /\ tasks[t].pc = "idle"

\* The handler of t calls get_crm_engine() and then the operation `op` of
\* the delegate; the task is inside that call, and keeps the thread.
EnterCall(t, op) ==
    LET engine == get_crm_engine(_engine_instance) IN
    /\ _engine_instance' = engine
    /\ constructed' = Constructed(_engine_instance, engine)
    /\ tasks' = [tasks EXCEPT ![t] = [IdleTask EXCEPT !.pc = "in_call",
                                                     !.op = op]]
    /\ running' = t

\* POST /v1/chat/completions.
TaskChatCompletions(t) ==
    /\ Arrives(t)
    /\ \E messages \in TaskMessageLists, streamed \in BOOLEAN :
         IF UserMessages(messages) = <<>>
         THEN /\ tasks' = [tasks EXCEPT ![t] =
                             [IdleTask EXCEPT !.pc = "replied",
                                              !.op = "no_user_message"]]
              /\ UNCHANGED <<_engine_instance, running, constructed>>
         ELSE IF streamed
         THEN LET engine == get_crm_engine(_engine_instance) IN
              /\ _engine_instance' = engine
              /\ constructed' = Constructed(_engine_instance, engine)
              /\ tasks' = [tasks EXCEPT ![t] =
                             [IdleTask EXCEPT !.pc = "start",
                                              !.op = "query_streaming"]]
              /\ UNCHANGED running
         ELSE EnterCall(t, "query")
    /\ UNCHANGED request_vars

\* POST /api/segments/generate.
TaskGenerateSegment(t) ==
    /\ Arrives(t)
    /\ EnterCall(t, "generate_segment")
    /\ UNCHANGED request_vars

\* POST /api/segments/execute.
TaskExecuteSegment(t) ==
    /\ Arrives(t)
    /\ EnterCall(t, "execute_segment_sql")
    /\ UNCHANGED request_vars

\* GET /health.
TaskHealth(t) ==
    /\ Arrives(t)
    /\ EnterCall(t, "health_check")
    /\ UNCHANGED request_vars

\* GET /v1/models: the handler runs to its return without a call.
TaskListModels(t) ==
    /\ Arrives(t)
    /\ tasks' = [tasks EXCEPT ![t] = [IdleTask EXCEPT !.pc = "replied",
                                                     !.op = "list_models"]]
    /\ UNCHANGED <<_engine_instance, running, constructed, request_vars>>

\* The delegate operation t is inside returns or raises: its
\* initialisations and its library calls have run on the loop's thread.
\* The handler runs to its end, and the thread is the loop's again.
TaskReturn(t) ==
    /\ running = t
    /\ tasks[t].pc = "in_call"
    /\ \E e \in TaskEnvs(tasks[t].op) :
         LET r == Operation(tasks[t].op, _engine_instance[1], e) IN
         /\ FailureReached(e, r)
         /\ tasks[t].op = "query" =>
              (e.response # NoResponse <=> r.kind = "return")
         /\ _engine_instance' = <<r.self>>
         /\ constructed' = Constructed(_engine_instance, <<r.self>>)
         /\ tasks' = [tasks EXCEPT ![t].pc = "replied", ![t].fail = e.fail]
    /\ running' = NoTask
    /\ UNCHANGED request_vars

\* query_streaming runs from where it is suspended to its next yield
\* ("streaming"), its raise ("error") or its return ("final").
TaskPull(src) ==
    IF src.remaining # <<>>
    THEN [pc |-> "streaming",
          source |-> [src EXCEPT !.remaining = Tail(src.remaining)]]
    ELSE IF src.fails THEN [pc |-> "error", source |-> src]
    ELSE [pc |-> "final", source |-> src]

\* The transport asks t for its first event: stream_response starts and
\* runs engine.query_streaming(query) to the first event it yields.
TaskStreamStart(t) ==
    /\ running = NoTask
    /\ tasks[t].pc = "start"
    /\ \E e \in TaskEnvs("query_streaming") :
         LET i == _init_query_engine(_engine_instance[1], e)
             next == TaskPull(SourceOf(e))
         IN /\ StreamEnvReached(e, i)
            /\ _engine_instance' = <<i.self>>
            /\ constructed' = Constructed(_engine_instance, <<i.self>>)
            /\ tasks' = [tasks EXCEPT ![t] =
                 IF i.exc # NoExc \/ e.fail = "query"
                 THEN [@ EXCEPT !.pc = "error", !.fail = e.fail]
                 ELSE [@ EXCEPT !.pc = next.pc, !.fail = e.fail,
                                !.source = next.source]]
    /\ UNCHANGED <<running, request_vars>>

\* The transport asks t for the event after a delta chunk.
TaskStreamNext(t) ==
    /\ running = NoTask
    /\ tasks[t].pc = "streaming"
    /\ LET next == TaskPull(tasks[t].source) IN
       tasks' = [tasks EXCEPT ![t].pc = next.pc, ![t].source = next.source]
    /\ UNCHANGED <<_engine_instance, running, constructed, request_vars>>

\* The transport asks t for the event after the final chunk: "[DONE]".
TaskStreamDone(t) ==
    /\ running = NoTask
    /\ tasks[t].pc = "final"
    /\ tasks' = [tasks EXCEPT ![t].pc = "done"]
    /\ UNCHANGED <<_engine_instance, running, constructed, request_vars>>

\* The framework has sent the response of t, or closed its stream.
TaskFinish(t) ==
    /\ running = NoTask
    /\ tasks[t].pc \in {"replied", "done", "error"}
    /\ tasks' = [tasks EXCEPT ![t] = IdleTask]
    /\ UNCHANGED <<_engine_instance, running, constructed, request_vars>>

LoopNext ==
    \/ \E t \in Tasks : TaskChatCompletions(t)
    \/ \E t \in Tasks : TaskGenerateSegment(t)
    \/ \E t \in Tasks : TaskExecuteSegment(t)
    \/ \E t \in Tasks : TaskHealth(t)
    \/ \E t \in Tasks : TaskListModels(t)
    \/ \E t \in Tasks : TaskReturn(t)
    \/ \E t \in Tasks : TaskStreamStart(t)
    \/ \E t \in Tasks : TaskStreamNext(t)
    \/ \E t \in Tasks : TaskStreamDone(t)
    \/ \E t \in Tasks : TaskFinish(t)

LoopSpec == Init /\ [][LoopNext]_vars

\* ------------------------------------------------------------------------
\* Properties
\* ------------------------------------------------------------------------

IsChat == request.endpoint = "chat"

HasUserMessage ==
    \E i \in 1..Len(request.messages) : request.messages[i].role = "user"

\* The delegate operations called for this request: every call but the
\* get_crm_engine() that obtains the delegate.
DelegateCalls == SelectSeq(calls, LAMBDA c : c.op # "get_crm_engine")

\* C1: a chat-completions request, streaming or not, whose message list has
\* no message of role "user" (the empty list too) is answered with the
\* client error 400, and the delegate is neither obtained nor called for it.
C1_NoUserMessageIs400 ==
    (IsChat /\ ~HasUserMessage) =>
        /\ response.status = 400
        /\ calls = <<>>
        /\ outcome = NoOutcome
        /\ pc = "replied"
        /\ events = <<>>

C1_Witness ==
    /\ IsChat
    /\ request.stream
    /\ Len(request.messages) = 2
    /\ ~HasUserMessage
    /\ response.status = 400

\* The content of the last message of role "user" in list order.
LastUserContent ==
    LET last == CHOOSE i \in 1..Len(request.messages) :
                  /\ request.messages[i].role = "user"
                  /\ \A j \in (i + 1)..Len(request.messages) :
                        request.messages[j].role # "user"
    IN request.messages[last].content

\* C5: for a chat-completions request with a message of role "user", the
\* delegate is invoked with the content of the last such message in list
\* order, and exactly once by the time the request is over: query when
\* stream is false, query_streaming when it is true.
C5_LastUserMessageIsQuestion ==
    (IsChat /\ HasUserMessage) =>
        /\ Len(DelegateCalls) <= 1
        /\ \A i \in 1..Len(DelegateCalls) :
              /\ DelegateCalls[i].arg = LastUserContent
              /\ DelegateCalls[i].op =
                    IF request.stream THEN "query_streaming" ELSE "query"
        /\ pc \in {"replied", "closed"} => Len(DelegateCalls) = 1
        /\ pc = "start" => DelegateCalls = <<>>
        /\ pc # "replied" => stream.query = LastUserContent

C5_Witness ==
    /\ IsChat
    /\ pc \in {"replied", "closed"}
    /\ Len(request.messages) = 2
    /\ request.messages[1].role = "user"
    /\ request.messages[2].role = "user"
    /\ request.messages[1].content # request.messages[2].content
    /\ Len(DelegateCalls) = 1

\* The chunks the response of the query engine generates: those of its
\* response_gen, or its whole answer where it has none.
GeneratedChunks ==
    IF "response_gen" \in env.response.attrs
    THEN env.response.chunks
    ELSE <<ResponseText(env.response)>>

IsDelta(ev, chunk) ==
    /\ ev.kind = "chunk"
    /\ ev.choices[1].delta = {<<"content", chunk>>}
    /\ ev.choices[1].finish_reason = Null

IsTerminal(ev) ==
    /\ ev.kind = "chunk"
    /\ ev.choices[1].delta = {}
    /\ ev.choices[1].finish_reason = "stop"

\* The streamed response is over and its source did not fail.
StreamCompleted == pc = "closed" /\ outcome.kind = "return"

\* The streamed response has yielded its error event.
StreamFailedOver == pc \in {"error", "closed"} /\ outcome.kind = "raise"

\* C2: a stream whose source yields the chunks C1..Cn (n >= 0) without
\* failing emits, in this order: for i = 1..n an event with delta content
\* Ci and a null finish_reason, in generation order; one terminal event
\* with an empty delta and finish_reason "stop"; the "[DONE]" event; and
\* nothing else.
C2_StreamIsChunksFinalDone ==
    StreamCompleted =>
        LET n == Len(yielded) IN
        /\ yielded = GeneratedChunks
        /\ Len(events) = n + 2
        /\ \A i \in 1..n : IsDelta(events[i], yielded[i])
        /\ IsTerminal(events[n + 1])
        /\ events[n + 2].kind = "[DONE]"

C2_Witness ==
    /\ StreamCompleted
    /\ Len(yielded) = 2
    /\ yielded[1] # yielded[2]
    /\ Len(events) = 4

\* The emitted chunk objects whose finish_reason is set.
Marked ==
    { i \in 1..Len(events) :
        events[i].kind = "chunk" /\ events[i].choices[1].finish_reason # Null }

ChunkObjects == { i \in 1..Len(events) : events[i].kind = "chunk" }

\* C3 as stated: every streamed response sets the finish marker on exactly
\* one emitted chunk, the final chunk object of the stream.
C3_Original ==
    pc = "closed" =>
        /\ Cardinality(Marked) = 1
        /\ \A i \in Marked : \A j \in ChunkObjects : j <= i

\* C3 as amended: the finish marker is set on at most one emitted chunk,
\* which is then the final chunk object of the stream; a stream whose
\* source does not fail sets it exactly once, and a stream whose source
\* fails never sets it.
C3_FinishMarkerAtMostOnceAndLast ==
    /\ Cardinality(Marked) <= 1
    /\ \A i \in Marked : \A j \in ChunkObjects : j <= i
    /\ StreamCompleted => Cardinality(Marked) = 1
    /\ StreamFailedOver => Marked = {}

C3_Witness ==
    /\ pc = "closed"
    /\ outcome.kind = "raise"
    /\ Len(yielded) = 1
    /\ Cardinality(ChunkObjects) = 1
    /\ Marked = {}

\* C4: when the streaming source fails after yielding k chunks (k >= 0; a
\* failure of the lazy initialisation before any chunk too), the stream
\* emits the k delta events, then one error event with the text of the
\* failure, which is its last event, and the response stays the 200 event
\* stream it was: the failure is not raised to the transport.
C4_FailureIsOneErrorEvent ==
    StreamFailedOver =>
        LET k == Len(yielded) IN
        /\ outcome.cause \in EnvExceptions
        /\ Len(events) = k + 1
        /\ \A i \in 1..k : IsDelta(events[i], yielded[i])
        /\ events[k + 1].kind = "error"
        /\ events[k + 1].error = Str(env.exc)
        /\ response = EventSourceResponse

C4_Witness ==
    /\ pc = "closed"
    /\ outcome.kind = "raise"
    /\ env.fail = "response_gen"
    /\ Len(yielded) = 2
    /\ events[3].kind = "error"

C4_WitnessInit ==
    /\ pc = "closed"
    /\ outcome.kind = "raise"
    /\ env.fail = "create_engine"
    /\ Len(events) = 1

\* C9: health_check never raises; it returns true iff creating the
\* database engine (where it is not yet created) and the trivial query both
\* succeed; /health reports "healthy"/"connected" iff it returned true and
\* "unhealthy"/"disconnected" otherwise.
C9_HealthCheckNeverRaises ==
    request.endpoint = "health" =>
        /\ outcome.kind = "return"
        /\ outcome.value = (env.fail = NoFail)
        /\ response.status = 200
        /\ response.body =
              IF env.fail = NoFail
              THEN [status |-> "healthy", database |-> "connected"]
              ELSE [status |-> "unhealthy", database |-> "disconnected"]

C9_Witness ==
    /\ request.endpoint = "health"
    /\ env.fail = "create_engine"
    /\ outcome.kind = "return"
    /\ outcome.value = FALSE
    /\ response.body.status = "unhealthy"

IsGenerate == request.endpoint = "generate"

\* The language model answered the segment prompt: self._llm.complete
\* returned env.text.
ModelAnswered == IsGenerate /\ outcome.cause \notin EnvExceptions

\* How generate_segment ends on the given text of the model, but for the
\* delegate's fields: whether it returns or raises, and what.
SegmentResult(text) ==
    LET r == ParseSegment(NewCRMQueryEngine, text) IN
    [kind |-> r.kind, value |-> r.value, exc |-> r.exc]

\* C6: generate_segment given a JSON text wrapped in a fenced code block
\* (with or without a language tag) returns the same parsed result as given
\* the unwrapped JSON text, for every JSON text: also one whose string
\* values hold three backticks in a row, and also under a tag that is not
\* exactly lowercase "json".
C6_FencedParsesAsUnwrapped ==
    (ModelAnswered /\ env.fence # "none" /\ JsonLoads(env.body).ok) =>
        [kind |-> outcome.kind, value |-> outcome.value, exc |-> outcome.exc]
            = SegmentResult(env.body)

\* The text of the model after fence stripping.
StrippedText == CleanFence(Strip(env.text))

\* C7: model output that is not JSON after fence stripping makes
\* generate_segment fail with the format error (ValueError), which the
\* endpoint answers with 400; every other failure of generate_segment is
\* answered with 500, never with 400.
C7_OnlyFormatErrorIs400 ==
    IsGenerate =>
        LET notJson == ModelAnswered /\ ~JsonLoads(StrippedText).ok IN
        /\ notJson =>
              /\ outcome.kind = "raise"
              /\ outcome.exc = InvalidFormat(StrippedText)
              /\ response.status = 400
        /\ (~notJson /\ response.status # 200) => response.status = 500

NameField == <<"n", "a", "m", "e">>
SqlField == <<"s", "q", "l">>

\* The text parses as a record with a name and a sql member.
IsSegmentRecord(text) ==
    LET parsed == JsonLoads(text) IN
    /\ parsed.ok
    /\ parsed.v.t = "obj"
    /\ HasKey(parsed.v, NameField)
    /\ HasKey(parsed.v, SqlField)

\* C8: generate_segment fails with the format error, and the endpoint
\* answers 400, whenever the stripped model text does not parse as a
\* {name, sql} record: valid JSON that is an array, a scalar or an object
\* without "name" or "sql" too.  A result it returns has both fields.
C8_NonRecordIsFormatError ==
    ModelAnswered =>
        /\ ~IsSegmentRecord(StrippedText) =>
              /\ outcome.kind = "raise"
              /\ outcome.exc = InvalidFormat(StrippedText)
              /\ response.status = 400
        /\ outcome.kind = "return" =>
              /\ outcome.value.t = "obj"
              /\ HasKey(outcome.value, NameField)
              /\ HasKey(outcome.value, SqlField)

LoggingOperations ==
    {"query", "query_streaming", "generate_segment", "execute_segment_sql"}

\* The delegate logged the error e.
LoggedByDelegate(e) ==
    \E i \in 1..Len(log) : log[i].by = "engine" /\ log[i].exc = e

\* C10: every failure inside query, query_streaming, generate_segment or
\* execute_segment_sql (a failure of the lazy initialisation and of the LLM
\* call of generate_segment too) is logged by the delegate and the same
\* error is re-raised to the caller, but for the JSON-parse failure of
\* generate_segment, which is raised as the invalid-format error; no
\* operation is called again.
C10_FailuresLoggedAndReraised ==
    (outcome.op \in LoggingOperations /\ outcome.cause # NoExc) =>
        /\ LoggedByDelegate(outcome.cause)
        /\ outcome.kind = "raise"
        /\ outcome.exc =
              IF outcome.cause = JSONDecodeError
              THEN InvalidFormat(StrippedText)
              ELSE outcome.cause
        /\ Len(DelegateCalls) = 1

\* ------------------------------------------------------------------------
\* The event loop and the lazily constructed singleton
\* ------------------------------------------------------------------------

\* Task a is inside a database or LLM call of the delegate.
Waiting(a) ==
    /\ tasks[a].pc = "in_call"
    /\ tasks[a].op \in {"query", "generate_segment", "execute_segment_sql"}

\* C11: a database or LLM call made while handling a request suspends only
\* that request's task and not the process: whenever a task is inside
\* engine.query, generate_segment or execute_segment_sql, the event loop can
\* start, and run to its reply, another request (GET /v1/models) in every
\* free slot, before the call returns.
C11_CallSuspendsOnlyItsTask ==
    \A a \in Tasks, b \in Tasks :
        Waiting(a) /\ tasks[b].pc = "idle" => ENABLED TaskListModels(b)

\* In this step task t ran a delegate operation to its return or its raise
\* (for a streamed response: to the first event).
Ran(t) ==
    /\ tasks[t].pc \in {"in_call", "start"}
    /\ tasks'[t].pc # tasks[t].pc

\* In this step the library call `site` of task t failed.
FailedAt(t, site) ==
    /\ Ran(t)
    /\ tasks'[t].pc \in {"replied", "error"}
    /\ tasks'[t].fail = site

\* Every resource has been constructed at most once, and is set exactly
\* when it has been constructed.
ConstructedOnce ==
    \A r \in Resources \cup {Singleton} :
        /\ constructed[r] <= 1
        /\ constructed[r] = 1 <=> ~Unset(_engine_instance, r)

\* A step of the loop keeps what is set, calls a constructor only for a
\* resource that is unset, leaves it unset when the constructor fails, and
\* leaves set every resource of an operation no constructor failed in.
ConstructionStep ==
    /\ _engine_instance # None => _engine_instance' # None
    /\ \A r \in Resources :
         /\ ~Unset(_engine_instance, r) =>
              _engine_instance'[1][r] = _engine_instance[1][r]
         /\ \A t \in Tasks :
              /\ FailedAt(t, Constructor(r)) =>
                   Unset(_engine_instance, r) /\ Unset(_engine_instance', r)
              /\ ( /\ Ran(t)
                   /\ r \in Uses(tasks[t].op)
                   /\ tasks'[t].fail \notin InitQuerySites )
                 => ~Unset(_engine_instance', r)

\* C12: however the requests interleave at their suspension points, the
\* delegate singleton and each of its lazily initialised resources is
\* constructed at most once; once set it is never replaced or reset, and
\* later requests reuse it; a construction that fails leaves the resource
\* unset, and the next request that needs it constructs it.
C12_ConstructedAtMostOnce ==
    /\ []ConstructedOnce
    /\ [][ConstructionStep]_vars

\* Every resource has been constructed, once, by a streamed response that
\* is suspended at a yield, after the create_engine of another request,
\* whose reply is still to be sent, had failed.
C12_Witness ==
    \E a \in Tasks, b \in Tasks :
        /\ tasks[a].pc = "streaming"
        /\ tasks[b].pc = "replied"
        /\ tasks[b].fail = "create_engine"
        /\ \A r \in Resources \cup {Singleton} : constructed[r] = 1

====
